---- MODULE Spec2Model ----
(***************************************************************************)
(* Model of dogs_of_the_dow.py: the annual scheduler of main() and the     *)
(* two-phase rebalance() it calls.  External collaborators (yfinance, the  *)
(* Alpaca REST client, the wall clock) are the environment: every call     *)
(* returns a nondeterministically chosen outcome.                          *)
(*                                                                         *)
(* Prices are whole dollars, so TOTAL / len(dogs) // price is computed     *)
(* exactly on integers.  The clock has day resolution.                     *)
(***************************************************************************)
EXTENDS Integers, Sequences, FiniteSets, TLC

\* ---- program constants -------------------------------------------------
TOTAL_PORTFOLIO_VALUE == 10000
REBALANCE_MONTH == 1
REBALANCE_DAY_WINDOW == 5
\* CHECK_INTERVAL = 60 * 60 * 24 seconds, in days
CHECK_INTERVAL == 1
\* last_rebalance_year = None
NoYear == -1

\* ---- bounds ------------------------------------------------------------
\* n of get_dogs(n=10), scaled down together with the universe
NumDogs == 2
\* yields returned by a lookup range over 0..MaxYield
MaxYield == 2
\* held quantities range over -1..MaxQty (-1: a short position)
MaxQty == 2
\* prices range over multiples of PriceStep up to MaxPriceSteps * PriceStep
PriceStep == 3000
MaxPriceSteps == 1
\* calendar: years 0..MaxYear, months 1..MonthsPerYear, days 1..DaysPerMonth
MaxYear == 2
MonthsPerYear == 3
DaysPerMonth == 6
\* process starts against one broker account (SpecConverge)
MaxRuns == 2

\* The universe list (DOW_30 in the source, 30 tickers), scaled down.
DOW_ALL == <<"KO", "IBM", "VZ">>
\* Symbols the brokerage account may hold, in the order the broker lists
\* them: a universe member and an outsider.
PosOrder == <<"KO", "XOM">>
PosSymbols == {PosOrder[i] : i \in 1..Len(PosOrder)}

VARIABLES
  DOW_30,                     \* configuration: the universe list
  FORCE_REBALANCE_ON_STARTUP, \* configuration flag
  clock,                      \* datetime.now(), day resolution
  pc,                         \* control position of main() / rebalance()
  retpc,                      \* call site rebalance() returns to
  last_rebalance_year,        \* main's local
  current_year,               \* main's local
  yields,                     \* get_dogs' local: items of the yields dict,
                              \* each with the outcome of its lookup
  dogs,                       \* rebalance's local
  current_positions,          \* rebalance's local: items of the dict
  sold_any,                   \* rebalance's local
  idx,                        \* position of the running for loop
  world,                      \* the market and the broker's book, where
                              \* a specification fixes them (SpecConverge)
  log,                        \* history of the current run
  starts,                     \* history: the rebalances started so far
  eligibleYears               \* history: years with an eligible poll

vars == <<DOW_30, FORCE_REBALANCE_ON_STARTUP, clock, pc, retpc,
          last_rebalance_year, current_year, yields, dogs,
          current_positions, sold_any, idx, world, log, starts,
          eligibleYears>>

\* what no statement of the program writes
config == <<DOW_30, FORCE_REBALANCE_ON_STARTUP, world>>
mainLocals == <<last_rebalance_year, current_year>>
runLocals == <<yields, dogs, current_positions, sold_any, idx>>
history == <<starts, eligibleYears>>

\* ---- calendar ----------------------------------------------------------
Dates == [year : 0..MaxYear, month : 1..MonthsPerYear, day : 1..DaysPerMonth]

LastDay(d) == d.month = MonthsPerYear /\ d.day = DaysPerMonth

NextDay(d) ==
  IF d.day < DaysPerMonth THEN [d EXCEPT !.day = d.day + 1]
  ELSE IF d.month < MonthsPerYear
       THEN [d EXCEPT !.month = d.month + 1, !.day = 1]
       ELSE [year |-> d.year + 1, month |-> 1, day |-> 1]

RECURSIVE AddDays(_, _)
AddDays(d, k) == IF k = 0 THEN d ELSE AddDays(NextDay(d), k - 1)

is_rebalance_day(today) ==
  /\ today.month = REBALANCE_MONTH
  /\ 1 <= today.day
  /\ today.day <= REBALANCE_DAY_WINDOW

\* ---- sequences ---------------------------------------------------------
Range(s) == {s[i] : i \in 1..Len(s)}
Min(a, b) == IF a < b THEN a ELSE b
Prefix(s, k) == SubSeq(s, 1, Min(k, Len(s)))
Universes == {Prefix(DOW_ALL, k) : k \in 1..Len(DOW_ALL)}

\* ---- outcomes of the external calls ------------------------------------
\* yf.Ticker(t).info: raises, has no "dividendYield" (None), or has a value
YieldOutcomes ==
  {[kind |-> "raise", val |-> 0], [kind |-> "absent", val |-> 0]}
    \cup {[kind |-> "value", val |-> v] : v \in 0..MaxYield}

\* yf.download(...): raises, returns an empty frame, or a frame whose last
\* close is a number (possibly 0.0) or NaN
PriceValues == {k * PriceStep : k \in 0..MaxPriceSteps}
PriceOutcomes ==
  {[kind |-> "raise", val |-> 0], [kind |-> "empty", val |-> 0],
   [kind |-> "nan", val |-> 0]}
    \cup {[kind |-> "value", val |-> v] : v \in PriceValues}

\* api.list_positions(): raises, or returns positions (distinct symbols,
\* listed in the broker's order)
Quantities == (-1)..MaxQty
Items == [sym : PosSymbols, qty : Quantities]
PositionLists ==
  {<<>>} \cup {<<a>> : a \in Items}
    \cup {l \in {<<a, b>> : a \in Items, b \in Items} :
            l[1].sym = PosOrder[1] /\ l[2].sym = PosOrder[2]}
PositionOutcomes ==
  {[kind |-> "raise", list |-> <<>>]}
    \cup {[kind |-> "ok", list |-> l] : l \in PositionLists}

\* api.submit_order(...): returns or raises
SubmitOutcomes == {"ok", "raise"}

\* ---- get_dividend_yields ----------------------------------------------
\* div_yield = info.get("dividendYield") or 0.0; on exception 0.0
YieldOf(o) == IF o.kind = "value" THEN o.val ELSE 0

\* the items of the yields dict, in insertion (= tickers) order
get_dividend_yields(tickers, outcome) ==
  [i \in 1..Len(tickers) |->
     [ticker |-> tickers[i], yield |-> YieldOf(outcome[tickers[i]]),
      lookup |-> outcome[tickers[i]].kind]]

\* ---- get_dogs ----------------------------------------------------------
\* sorted(..., key=yield, reverse=True): Python's sort is stable, and
\* reverse=True keeps the original order of items with equal keys.
\* Insertion of x behind every item whose key is >= x's key.
RECURSIVE InsertDesc(_, _)
InsertDesc(s, x) ==
  IF s = <<>> THEN <<x>>
  ELSE IF Head(s).yield >= x.yield
       THEN <<Head(s)>> \o InsertDesc(Tail(s), x)
       ELSE <<x>> \o s

\* (mutant) an unstable descending sort: equal keys come out reversed
RECURSIVE InsertDescReversed(_, _)
InsertDescReversed(s, x) ==
  IF s = <<>> THEN <<x>>
  ELSE IF Head(s).yield > x.yield
       THEN <<Head(s)>> \o InsertDescReversed(Tail(s), x)
       ELSE <<x>> \o s

RECURSIVE SortedDescReversed(_)
SortedDescReversed(items) ==
  IF items = <<>> THEN <<>>
  ELSE InsertDescReversed(SortedDescReversed(SubSeq(items, 1, Len(items) - 1)),
                          items[Len(items)])

RECURSIVE SortedDesc(_)
SortedDesc(items) ==
  IF items = <<>> THEN <<>>
  ELSE InsertDesc(SortedDesc(SubSeq(items, 1, Len(items) - 1)),
                  items[Len(items)])

\* dogs = [t for t, _ in ranked[:n]]
get_dogs(items, n) ==
  LET ranked == SortedDesc(items)
      top == Prefix(ranked, n)
  IN [i \in 1..Len(top) |-> top[i].ticker]

\* ---- get_latest_price --------------------------------------------------
\* None on an empty frame or an exception, else float(last close)
get_latest_price(o) ==
  IF o.kind \in {"raise", "empty"} THEN [kind |-> "None", val |-> 0]
  ELSE IF o.kind = "nan" THEN [kind |-> "nan", val |-> 0]
  ELSE [kind |-> "float", val |-> o.val]

\* ---- get_all_positions -------------------------------------------------
\* {p.symbol: int(p.qty) for p in positions}, {} on an exception
get_all_positions(o) == IF o.kind = "ok" THEN o.list ELSE <<>>

\* (mutant) the held quantity is never looked up: every Dog counts as new
PositionGetZero(items, ticker) == 0

\* current_positions.get(ticker, 0)
PositionGet(items, ticker) ==
  IF \E i \in 1..Len(items) : items[i].sym = ticker
  THEN (CHOOSE it \in Range(items) : it.sym = ticker).qty
  ELSE 0

\* ---- place_order -------------------------------------------------------
\* (mutant) the quantity floor is off by one: qty < 0 instead of qty < 1
place_order_floor0(symbol, qty, side, phase, outcome) ==
  [ev |-> "intent", phase |-> phase, sym |-> symbol, side |-> side,
   qty |-> qty,
   result |-> IF qty < 0 THEN "dropped"
              ELSE IF outcome = "ok" THEN "ok" ELSE "failed"]

\* The record appended to the run's history for one place_order call:
\* "dropped" (qty < 1, the broker is not called), "ok" or "failed".
place_order(symbol, qty, side, phase, outcome) ==
  [ev |-> "intent", phase |-> phase, sym |-> symbol, side |-> side,
   qty |-> qty,
   result |-> IF qty < 1 THEN "dropped"
              ELSE IF outcome = "ok" THEN "ok" ELSE "failed"]

\* ---- target share count ------------------------------------------------
\* (mutant) the share count is rounded up instead of down
TargetSharesRoundUp(ndogs, price) ==
  (TOTAL_PORTFOLIO_VALUE + ndogs * price - 1) \div (ndogs * price)

\* (mutant) every Dog is allotted the whole capital
TargetSharesWholeCapital(ndogs, price) == TOTAL_PORTFOLIO_VALUE \div price

\* target_per_stock = TOTAL_PORTFOLIO_VALUE / len(dogs)   (a float)
\* target_shares = int(target_per_stock // price), price a positive integer:
\* floor((T / n) / p) = floor(T / (n * p))
TargetShares(ndogs, price) == TOTAL_PORTFOLIO_VALUE \div (ndogs * price)

\* int(target_per_stock // price) raises on price 0.0 (ZeroDivisionError)
\* and on NaN (ValueError: cannot convert float NaN to integer)
PriceRaises(p) == p.kind = "nan" \/ (p.kind = "float" /\ p.val = 0)

\* ---- initial states ----------------------------------------------------
InitLocals ==
  /\ pc = "start"
  /\ retpc = "none"
  /\ last_rebalance_year = NoYear
  /\ current_year = NoYear
  /\ yields = <<>>
  /\ dogs = <<>>
  /\ current_positions = <<>>
  /\ sold_any = FALSE
  /\ idx = 0
  /\ log = <<>>
  /\ starts = <<>>
  /\ eligibleYears = {}

\* Every external call returns whatever it likes: no world is consulted.
NoWorld == <<>>

\* The process is started on the last day of a rebalance window.
Init ==
  /\ DOW_30 \in Universes
  /\ FORCE_REBALANCE_ON_STARTUP \in BOOLEAN
  /\ world = NoWorld
  /\ clock = [year |-> MaxYear, month |-> REBALANCE_MONTH,
              day |-> REBALANCE_DAY_WINDOW]
  /\ InitLocals

\* The process is started on any day of the first year.
InitSched ==
  /\ DOW_30 = DOW_ALL
  /\ FORCE_REBALANCE_ON_STARTUP \in BOOLEAN
  /\ world = NoWorld
  /\ clock \in {d \in Dates : d.year = 0}
  /\ InitLocals

\* ---- main --------------------------------------------------------------
\* The call rebalance(): control enters the function, the history records
\* the calendar year in which it starts.
CallRebalance(site, forced) ==
  /\ pc' = "get_yields"
  /\ retpc' = site
  /\ log' = <<>>
  /\ starts' = Append(starts, [year |-> clock.year, forced |-> forced,
                                eligible |-> is_rebalance_day(clock),
                                date |-> clock])

\* try: api.get_account() ... except: return.  Then
\* last_rebalance_year = None and the startup override.
Connect ==
  /\ pc = "start"
  /\ \E connected \in BOOLEAN :
       IF ~connected
       THEN /\ pc' = "exit"
            /\ UNCHANGED <<retpc, log, starts>>
       ELSE IF FORCE_REBALANCE_ON_STARTUP
            THEN CallRebalance("force_ret", TRUE)
            ELSE /\ pc' = "loop"
                 /\ UNCHANGED <<retpc, log, starts>>
  /\ last_rebalance_year' = NoYear
  /\ UNCHANGED <<config, clock, current_year, runLocals, eligibleYears>>

\* (mutant) the forced rebalance leaves the year marker unset
ForceReturnNoMark ==
  /\ pc = "force_ret"
  /\ last_rebalance_year' = NoYear
  /\ pc' = "loop"
  /\ UNCHANGED <<config, clock, retpc, current_year, runLocals, log, history>>

\* last_rebalance_year = datetime.now().year, after the forced rebalance
ForceReturn ==
  /\ pc = "force_ret"
  /\ last_rebalance_year' = clock.year
  /\ pc' = "loop"
  /\ UNCHANGED <<config, clock, retpc, current_year, runLocals, log, history>>

\* current_year = datetime.now().year
Poll ==
  /\ pc = "loop"
  /\ current_year' = clock.year
  /\ pc' = "check"
  /\ UNCHANGED <<config, clock, retpc, last_rebalance_year, runLocals, log,
                 history>>

\* (mutant) the poll triggers on every eligible day, without the year guard
CheckIgnoresYear ==
  /\ pc = "check"
  /\ eligibleYears' = IF is_rebalance_day(clock)
                      THEN eligibleYears \cup {clock.year}
                      ELSE eligibleYears
  /\ IF is_rebalance_day(clock)
     THEN CallRebalance("loop_ret", FALSE)
     ELSE /\ pc' = "sleep"
          /\ UNCHANGED <<retpc, log, starts>>
  /\ UNCHANGED <<config, clock, mainLocals, runLocals>>

\* if is_rebalance_day() and last_rebalance_year != current_year: rebalance()
\* else: log "Holding"
Check ==
  /\ pc = "check"
  /\ eligibleYears' = IF is_rebalance_day(clock)
                      THEN eligibleYears \cup {clock.year}
                      ELSE eligibleYears
  /\ IF is_rebalance_day(clock) /\ last_rebalance_year /= current_year
     THEN CallRebalance("loop_ret", FALSE)
     ELSE /\ pc' = "sleep"
          /\ UNCHANGED <<retpc, log, starts>>
  /\ UNCHANGED <<config, clock, mainLocals, runLocals>>

\* last_rebalance_year = current_year, after the rebalance of the loop
LoopReturn ==
  /\ pc = "loop_ret"
  /\ last_rebalance_year' = current_year
  /\ pc' = "sleep"
  /\ UNCHANGED <<config, clock, retpc, current_year, runLocals, log, history>>

\* time.sleep(CHECK_INTERVAL)
Sleep ==
  /\ pc = "sleep"
  /\ AddDays(clock, CHECK_INTERVAL).year <= MaxYear
  /\ clock' = AddDays(clock, CHECK_INTERVAL)
  /\ pc' = "loop"
  /\ UNCHANGED <<config, retpc, mainLocals, runLocals, log, history>>

\* The wall clock moves on by a day while main is between two statements:
\* a sleep that overshoots, the time a rebalance took, midnight passing
\* between the two datetime.now() calls of one poll.
Tick ==
  /\ pc \in {"check", "sleep", "force_ret", "loop_ret"}
  /\ NextDay(clock).year <= MaxYear
  /\ clock' = NextDay(clock)
  /\ UNCHANGED <<config, pc, retpc, mainLocals, runLocals, log, history>>

\* ---- rebalance ---------------------------------------------------------
outer == <<config, clock, retpc, mainLocals, history>>

\* yields = get_dividend_yields(DOW_30), one lookup per ticker
GetYields ==
  /\ pc = "get_yields"
  /\ \E outcome \in [Range(DOW_30) -> YieldOutcomes] :
       yields' = get_dividend_yields(DOW_30, outcome)
  /\ pc' = "rank"
  /\ UNCHANGED <<outer, dogs, current_positions, sold_any, idx, log>>

\* ranked = sorted(...); dogs = top n; get_dogs(n=10) returns
RankDogs ==
  /\ pc = "rank"
  /\ dogs' = get_dogs(yields, NumDogs)
  /\ pc' = "read1"
  /\ UNCHANGED <<outer, yields, current_positions, sold_any, idx, log>>

\* current_positions = get_all_positions(); sold_any = False, where
\* api.list_positions() answers with one of outcomes
ReadPositionsFrom(outcomes) ==
  /\ pc = "read1"
  /\ \E o \in outcomes :
       /\ current_positions' = get_all_positions(o)
       /\ log' = Append(log, [ev |-> "read", n |-> 1, ok |-> o.kind = "ok",
                              pos |-> get_all_positions(o)])
  /\ sold_any' = FALSE
  /\ idx' = 1
  /\ yields' = <<>>
  /\ pc' = "divest"
  /\ UNCHANGED <<outer, dogs>>

ReadPositions == ReadPositionsFrom(PositionOutcomes)

\* (mutant) only symbols outside the universe are liquidated
DivestOutsidersOnly ==
  /\ pc = "divest"
  /\ idx <= Len(current_positions)
  /\ LET item == current_positions[idx] IN
       IF item.sym \notin Range(DOW_30)
       THEN /\ \E outcome \in SubmitOutcomes :
                 log' = Append(log, place_order(item.sym, item.qty, "sell",
                                                "divest", outcome))
            /\ sold_any' = TRUE
       ELSE UNCHANGED <<log, sold_any>>
  /\ idx' = idx + 1
  /\ UNCHANGED <<outer, pc, yields, dogs, current_positions>>

\* (mutant) every held symbol is liquidated, Dogs included
DivestEverything ==
  /\ pc = "divest"
  /\ idx <= Len(current_positions)
  /\ LET item == current_positions[idx] IN
       /\ \E outcome \in SubmitOutcomes :
            log' = Append(log, place_order(item.sym, item.qty, "sell",
                                           "divest", outcome))
       /\ sold_any' = TRUE
  /\ idx' = idx + 1
  /\ UNCHANGED <<outer, pc, yields, dogs, current_positions>>

\* (mutant) the liquidation loop is abandoned at the first rejected order
DivestAbortsOnFailure ==
  /\ pc = "divest"
  /\ idx <= Len(current_positions)
  /\ LET item == current_positions[idx] IN
       IF item.sym \notin Range(dogs)
       THEN \E outcome \in SubmitOutcomes :
              /\ log' = Append(log, place_order(item.sym, item.qty, "sell",
                                                "divest", outcome))
              /\ idx' = IF log'[Len(log')].result = "failed"
                        THEN Len(current_positions) + 1 ELSE idx + 1
              /\ sold_any' = TRUE
       ELSE /\ idx' = idx + 1
            /\ UNCHANGED <<log, sold_any>>
  /\ UNCHANGED <<outer, pc, yields, dogs, current_positions>>

\* one iteration of: for symbol, qty in current_positions.items()
Divest ==
  /\ pc = "divest"
  /\ idx <= Len(current_positions)
  /\ LET item == current_positions[idx] IN
       IF item.sym \notin Range(dogs)
       THEN /\ \E outcome \in SubmitOutcomes :
                 log' = Append(log, place_order(item.sym, item.qty, "sell",
                                                "divest", outcome))
            /\ sold_any' = TRUE
       ELSE UNCHANGED <<log, sold_any>>
  /\ idx' = idx + 1
  /\ UNCHANGED <<outer, pc, yields, dogs, current_positions>>

\* (mutant) the settlement pause is taken after every liquidation loop
DivestDoneAlwaysSettles ==
  /\ pc = "divest"
  /\ idx > Len(current_positions)
  /\ pc' = "settle"
  /\ UNCHANGED <<outer, runLocals, log>>

\* the loop is exhausted: if sold_any, go on to the settlement pause
DivestDone ==
  /\ pc = "divest"
  /\ idx > Len(current_positions)
  /\ pc' = IF sold_any THEN "settle" ELSE "read2"
  /\ UNCHANGED <<outer, runLocals, log>>

\* (mutant) the acquisition pass starts right after the pause, on the
\* positions read before the sells
SettleThenAcquire ==
  /\ pc = "settle"
  /\ log' = Append(log, [ev |-> "pause"])
  /\ idx' = 1
  /\ pc' = "acquire"
  /\ UNCHANGED <<outer, yields, dogs, current_positions, sold_any>>

\* time.sleep(5)
Settle ==
  /\ pc = "settle"
  /\ log' = Append(log, [ev |-> "pause"])
  /\ pc' = "read2"
  /\ UNCHANGED <<outer, runLocals>>

\* (mutant) a failed second read leaves the positions of the first read
RereadKeepsStale(outcomes) ==
  /\ pc = "read2"
  /\ \E o \in outcomes :
       /\ current_positions' = IF o.kind = "ok" THEN get_all_positions(o)
                                ELSE current_positions
       /\ log' = Append(log, [ev |-> "read", n |-> 2, ok |-> o.kind = "ok",
                              pos |-> get_all_positions(o)])
  /\ idx' = 1
  /\ pc' = "acquire"
  /\ UNCHANGED <<outer, yields, dogs, sold_any>>

\* current_positions = get_all_positions(), after the sells, where
\* api.list_positions() answers with one of outcomes
RereadPositionsFrom(outcomes) ==
  /\ pc = "read2"
  /\ \E o \in outcomes :
       /\ current_positions' = get_all_positions(o)
       /\ log' = Append(log, [ev |-> "read", n |-> 2, ok |-> o.kind = "ok",
                              pos |-> get_all_positions(o)])
  /\ idx' = 1
  /\ pc' = "acquire"
  /\ UNCHANGED <<outer, yields, dogs, sold_any>>

RereadPositions == RereadPositionsFrom(PositionOutcomes)

\* (mutant) a trim is placed with the signed diff instead of abs(diff)
AcquireEventsSigned(ticker, price, outcome) ==
  LET target_shares == TargetShares(Len(dogs), price)
      current_qty == PositionGet(current_positions, ticker)
      diff == target_shares - current_qty
      diag == [ev |-> "diag", sym |-> ticker, price |-> price,
               target |-> target_shares, current |-> current_qty,
               diff |-> diff]
  IN IF diff > 0
     THEN <<diag, place_order(ticker, diff, "buy", "acquire", outcome)>>
     ELSE IF diff < 0
          THEN <<diag, place_order(ticker, diff, "sell", "acquire", outcome)>>
          ELSE <<diag>>

\* The history of one iteration of: for ticker in dogs, for a usable price
AcquireEvents(ticker, price, outcome) ==
  LET target_shares == TargetShares(Len(dogs), price)
      current_qty == PositionGet(current_positions, ticker)
      diff == target_shares - current_qty
      diag == [ev |-> "diag", sym |-> ticker, price |-> price,
               target |-> target_shares, current |-> current_qty,
               diff |-> diff]
  IN IF diff > 0
     THEN <<diag, place_order(ticker, diff, "buy", "acquire", outcome)>>
     ELSE IF diff < 0
          THEN <<diag, place_order(ticker, 0 - diff, "sell", "acquire",
                                   outcome)>>
          ELSE <<diag>>

\* one iteration of: for ticker in dogs
Acquire ==
  /\ pc = "acquire"
  /\ idx <= Len(dogs)
  /\ \E po \in PriceOutcomes, outcome \in SubmitOutcomes :
       LET price == get_latest_price(po) IN
         IF price.kind = "None"
         THEN /\ log' = Append(log, [ev |-> "skip", sym |-> dogs[idx]])
              /\ idx' = idx + 1
              /\ pc' = "acquire"
         ELSE IF PriceRaises(price)
              THEN /\ log' = Append(log, [ev |-> "raise", sym |-> dogs[idx]])
                   /\ idx' = idx
                   /\ pc' = "crashed"
              ELSE /\ log' = log \o AcquireEvents(dogs[idx], price.val,
                                                  outcome)
                   /\ idx' = idx + 1
                   /\ pc' = "acquire"
  /\ UNCHANGED <<outer, yields, dogs, current_positions, sold_any>>

\* "Rebalance complete!": rebalance returns to its caller, its locals die
RebalanceDone ==
  /\ pc = "acquire"
  /\ idx > Len(dogs)
  /\ pc' = "done"
  /\ UNCHANGED <<outer, runLocals, log>>

Return ==
  /\ pc = "done"
  /\ pc' = retpc
  /\ retpc' = "none"
  /\ yields' = <<>>
  /\ dogs' = <<>>
  /\ current_positions' = <<>>
  /\ sold_any' = FALSE
  /\ idx' = 0
  /\ log' = <<>>
  /\ UNCHANGED <<config, clock, mainLocals, history>>

\* ---- the program -------------------------------------------------------
Next ==
  \/ Connect \/ ForceReturn \/ Poll \/ Check \/ LoopReturn \/ Sleep \/ Tick
  \/ GetYields \/ RankDogs \/ ReadPositions \/ Divest \/ DivestDone
  \/ Settle \/ RereadPositions \/ Acquire \/ RebalanceDone \/ Return

Spec == Init /\ [][Next]_vars

\* ---- one call of rebalance() ------------------------------------------
\* The state in which main has just called rebalance() for the startup
\* override.
InitRun ==
  /\ DOW_30 \in Universes
  /\ FORCE_REBALANCE_ON_STARTUP = TRUE
  /\ world = NoWorld
  /\ clock = [year |-> MaxYear, month |-> REBALANCE_MONTH,
              day |-> REBALANCE_DAY_WINDOW]
  /\ pc = "get_yields"
  /\ retpc = "force_ret"
  /\ last_rebalance_year = NoYear
  /\ current_year = NoYear
  /\ yields = <<>>
  /\ dogs = <<>>
  /\ current_positions = <<>>
  /\ sold_any = FALSE
  /\ idx = 0
  /\ log = <<>>
  /\ starts = <<[year |-> clock.year, forced |-> TRUE,
                 eligible |-> is_rebalance_day(clock), date |-> clock]>>
  /\ eligibleYears = {}

NextRun ==
  \/ GetYields \/ RankDogs \/ ReadPositions \/ Divest \/ DivestDone
  \/ Settle \/ RereadPositions \/ Acquire \/ RebalanceDone \/ Return

SpecRun == InitRun /\ [][NextRun]_vars

\* ---- the scheduler over several years ----------------------------------
\* rebalance() seen from main: it never reads the clock and never writes a
\* local of main, so for main a call is one step that either returns or
\* lets the exception of int(target_per_stock // price) escape.
RebalanceBody ==
  /\ pc = "get_yields"
  /\ \E raised \in BOOLEAN :
       IF raised
       THEN /\ pc' = "crashed"
            /\ retpc' = retpc
       ELSE /\ pc' = retpc
            /\ retpc' = "none"
  /\ UNCHANGED <<config, clock, mainLocals, runLocals, log, history>>

NextSched ==
  \/ Connect \/ ForceReturn \/ Poll \/ Check \/ LoopReturn \/ Sleep \/ Tick
  \/ RebalanceBody

SpecSched == InitSched /\ [][NextSched]_vars

\* ---- the scheduler polling once a day ---------------------------------
\* A rebalance takes less than a day: at most one midnight passes between
\* its call and the statement after it.
RunOverMidnight ==
  /\ pc \in {"force_ret", "loop_ret"}
  /\ clock = starts[Len(starts)].date
  /\ Tick

\* Every sleep lasts exactly CHECK_INTERVAL and no midnight falls inside a
\* poll, so two polls are at most CHECK_INTERVAL + 1 days apart; the
\* process is never starved.
NextDaily ==
  \/ Connect \/ ForceReturn \/ Poll \/ Check \/ LoopReturn \/ Sleep
  \/ RebalanceBody \/ RunOverMidnight

SpecDaily == InitSched /\ [][NextDaily]_vars /\ WF_vars(NextDaily)

\* ---- runs against a consistent world -----------------------------------
\* The market quotes one yield and one positive price per universe symbol,
\* the broker fills every accepted order in full and lists exactly the
\* non-zero holdings of its book.
Symbols == Range(DOW_ALL) \cup PosSymbols
OutsideUniverse(sym) == sym \notin Range(DOW_ALL)
BookOrder == DOW_ALL \o SelectSeq(PosOrder, OutsideUniverse)

InitBooks ==
  {[sym \in Symbols |-> IF sym \in PosSymbols THEN q[sym] ELSE 0] :
     q \in [PosSymbols -> Quantities]}

Worlds(universe) ==
  [book : InitBooks,
   yields : [Range(universe) -> 0..MaxYield],
   prices : [Range(universe) -> PriceValues \ {0}]]

\* shares of sym the orders of the current run have added to the book
RECURSIVE NetFilled(_, _)
NetFilled(sym, n) ==
  IF n = 0 THEN 0
  ELSE NetFilled(sym, n - 1)
         + (IF log[n].ev = "intent" /\ log[n].sym = sym
                /\ log[n].result = "ok"
            THEN IF log[n].side = "buy" THEN log[n].qty ELSE 0 - log[n].qty
            ELSE 0)

\* the broker's book now: world.book is the book when the run started
Book == [sym \in Symbols |-> world.book[sym] + NetFilled(sym, Len(log))]

IsHeld(item) == item.qty /= 0
Listing(book) ==
  SelectSeq([i \in 1..Len(BookOrder) |->
               [sym |-> BookOrder[i], qty |-> book[BookOrder[i]]]], IsHeld)

NoRejection(events) ==
  \A i \in 1..Len(events) :
    events[i].ev = "intent" => events[i].result /= "failed"

GetYieldsQuoted ==
  /\ GetYields
  /\ \A i \in 1..Len(yields') :
       /\ yields'[i].lookup = "value"
       /\ yields'[i].yield = world.yields[yields'[i].ticker]

ReadBook == ReadPositionsFrom({[kind |-> "ok", list |-> Listing(Book)]})

DivestFilled == Divest /\ NoRejection(log')

RereadBook == RereadPositionsFrom({[kind |-> "ok", list |-> Listing(Book)]})

AcquireQuoted ==
  /\ Acquire
  /\ NoRejection(log')
  /\ \A i \in (Len(log) + 1)..Len(log') :
       /\ log'[i].ev \in {"diag", "intent"}
       /\ log'[i].ev = "diag" => log'[i].price = world.prices[log'[i].sym]

\* The process is stopped as the run completes and started again: its
\* memory is lost, the broker's book stays.
Restart ==
  /\ pc = "done"
  /\ Len(starts) < MaxRuns
  /\ world' = [world EXCEPT !.book = Book]
  /\ pc' = "start"
  /\ retpc' = "none"
  /\ last_rebalance_year' = NoYear
  /\ current_year' = NoYear
  /\ yields' = <<>>
  /\ dogs' = <<>>
  /\ current_positions' = <<>>
  /\ sold_any' = FALSE
  /\ idx' = 0
  /\ log' = <<>>
  /\ UNCHANGED <<DOW_30, FORCE_REBALANCE_ON_STARTUP, clock, history>>

InitConverge ==
  /\ DOW_30 \in Universes
  /\ FORCE_REBALANCE_ON_STARTUP = TRUE
  /\ world \in Worlds(DOW_30)
  /\ clock = [year |-> MaxYear, month |-> REBALANCE_MONTH,
              day |-> REBALANCE_DAY_WINDOW]
  /\ InitLocals

NextConverge ==
  \/ Connect \/ GetYieldsQuoted \/ RankDogs \/ ReadBook \/ DivestFilled
  \/ DivestDone \/ Settle \/ RereadBook \/ AcquireQuoted \/ RebalanceDone
  \/ Restart

SpecConverge == InitConverge /\ [][NextConverge]_vars

\* ---- properties of the scheduler ---------------------------------------
StartsIn(y) == {i \in 1..Len(starts) : starts[i].year = y}
TriggersIn(y) == {i \in StartsIn(y) : ~starts[i].forced}

\* C1: at most one rebalance is started in any single calendar year,
\* however the clock advances between and during the polls.
C1_AtMostOneStartPerYear ==
  \A y \in 0..MaxYear : Cardinality(StartsIn(y)) <= 1

\* C5: with force-rebalance-on-startup, the first rebalance is the forced
\* one and the only forced one, it runs whatever the date, the year marker
\* is the current year right after it, and no poll of the calendar year in
\* which it started triggers another rebalance.
C5_ForcedStartupSuppressesYear ==
  (FORCE_REBALANCE_ON_STARTUP /\ pc \notin {"start", "exit"}) =>
    /\ Len(starts) >= 1
    /\ starts[1].forced
    /\ \A i \in 2..Len(starts) :
         ~starts[i].forced /\ starts[i].year /= starts[1].year
    /\ (pc = "loop" /\ current_year = NoYear) =>
         last_rebalance_year = clock.year
    /\ pc \in {"loop", "check", "sleep", "loop_ret"} =>
         last_rebalance_year >= starts[1].year

\* C5 witness: the forced rebalance ran on a day outside the window, or an
\* eligible poll of the startup year has been answered by holding.
C5_Witness ==
  /\ FORCE_REBALANCE_ON_STARTUP
  /\ pc = "sleep"
  /\ Len(starts) = 1
  /\ starts[1].forced
  /\ starts[1].year = clock.year
  /\ clock.year \in eligibleYears

\* C6: the year-guard re-arms: once a poll of year y has triggered and an
\* eligible poll of year y + 1 has been made, the polls of each of the two
\* years have triggered exactly one rebalance.
C6_YearGuardRearms ==
  \A y \in 0..(MaxYear - 1) :
    (TriggersIn(y) /= {} /\ (y + 1) \in eligibleYears) =>
      /\ Cardinality(TriggersIn(y)) = 1
      /\ Cardinality(TriggersIn(y + 1)) = 1

\* ---- properties of one rebalance run ----------------------------------
Events(kind) == {i \in 1..Len(log) : log[i].ev = kind}
IntentsOf(phase) == {i \in Events("intent") : log[i].phase = phase}
Rereads == {i \in Events("read") : log[i].n = 2}
Submitted(i) == log[i].result \in {"ok", "failed"}
PastDivest == pc \in {"settle", "read2", "acquire", "done", "crashed"}

\* C2: in a run every divestment submission precedes the settlement pause,
\* the pause precedes the second position read, and the second position
\* read precedes every acquisition-phase submission.
C2_PhaseOrdering ==
  LET divests == IntentsOf("divest")
      pauses == Events("pause")
      rereads == Rereads
      acquires == IntentsOf("acquire")
  IN /\ \A i \in divests :
          /\ \A j \in pauses : i < j
          /\ \A j \in rereads : i < j
          /\ \A j \in acquires : i < j
     /\ \A i \in pauses : \A j \in rereads : i < j
     /\ \A j \in acquires : \E i \in rereads : i < j
     /\ \A j \in acquires : \A i \in pauses : i < j
     /\ (pc \in {"acquire", "done"} /\ pauses /= {}) => rereads /= {}

\* C2 witness: a finished run that submitted a divestment order, paused,
\* re-read the positions and submitted an acquisition order.
C2_Witness ==
  /\ pc = "done"
  /\ \E i \in IntentsOf("divest") : Submitted(i)
  /\ Events("pause") /= {}
  /\ \E j \in IntentsOf("acquire") : Submitted(j)

\* C3: whatever the external calls return, rebalance() does not raise.
C3_RebalanceNeverRaises == pc /= "crashed"

\* C4: every symbol held at the first position read that is not a Dog gets
\* exactly one intent in the run: a divestment sell of the full quantity.
C4_NonDogsSoldInFull ==
  PastDivest =>
    LET intents == Events("intent") IN
    \A k \in 1..Len(log[1].pos) :
      LET held == log[1].pos[k]
          mine == {i \in intents : log[i].sym = held.sym}
      IN held.sym \notin Range(dogs) =>
           /\ Cardinality(mine) = 1
           /\ \A i \in mine : /\ log[i].phase = "divest"
                               /\ log[i].side = "sell"
                               /\ log[i].qty = held.qty

\* C4 witness: a finished run in which a universe symbol that is not a Dog
\* was held and the re-read still showed it.
C4_Witness ==
  /\ pc = "done"
  /\ \E k \in 1..Len(log[1].pos) :
       /\ log[1].pos[k].sym \in Range(DOW_30) \ Range(dogs)
       /\ log[1].pos[k].qty >= 1
       /\ PositionGet(current_positions, log[1].pos[k].sym) >= 1

\* the yield of a ticker in the snapshot, its place in the universe list
YieldIn(items, t) == (CHOOSE it \in Range(items) : it.ticker = t).yield
UniverseIndex(t) == CHOOSE i \in 1..Len(DOW_30) : DOW_30[i] = t
\* a comes before b in the ranking: higher yield, or equal yield and
\* earlier in the universe list
RanksBefore(items, a, b) ==
  \/ YieldIn(items, a) > YieldIn(items, b)
  \/ /\ YieldIn(items, a) = YieldIn(items, b)
     /\ UniverseIndex(a) < UniverseIndex(b)

\* C7: for every yield snapshot, failed and absent lookups counting as 0,
\* get_dogs returns min(N, |universe|) distinct universe symbols, by yield
\* descending, equal yields in universe order, and no symbol left out
\* ranks before a symbol included.
C7_DogsAreTopYielders ==
  pc = "read1" =>
    /\ Len(yields) = Len(DOW_30)
    /\ \A i \in 1..Len(yields) :
         /\ yields[i].ticker = DOW_30[i]
         /\ yields[i].lookup \in {"raise", "absent"} => yields[i].yield = 0
    /\ Len(dogs) = Min(NumDogs, Len(DOW_30))
    /\ Range(dogs) \subseteq Range(DOW_30)
    /\ \A i, j \in 1..Len(dogs) :
         i < j => dogs[i] /= dogs[j] /\ RanksBefore(yields, dogs[i], dogs[j])
    /\ \A out \in Range(DOW_30) \ Range(dogs) : \A in \in Range(dogs) :
         /\ YieldIn(yields, out) <= YieldIn(yields, in)
         /\ RanksBefore(yields, in, out)

\* C7 witness: a ranking of the full universe in which two symbols tie on a
\* yield of 0 that came from a failed lookup, one of them selected.
C7_Witness ==
  /\ pc = "read1"
  /\ Len(DOW_30) > NumDogs
  /\ \E i, j \in 1..Len(yields) :
       /\ i < j
       /\ yields[i].yield = yields[j].yield
       /\ yields[j].lookup = "raise"
       /\ yields[i].ticker \in Range(dogs)
       /\ yields[j].ticker \notin Range(dogs)

\* the positions of the second read
Reread == log[CHOOSE i \in Rereads : TRUE].pos

\* C8: for every Dog the target pass handled with a usable price,
\* diff = target - quantity at the second read (0 if not held); a buy of
\* diff shares follows when diff > 0, a sell of |diff| shares when
\* diff < 0, nothing when diff = 0; a Dog gets no other acquisition
\* intent, and no acquisition intent has a quantity <= 0.
C8_DiffDecidesIntent ==
  LET diags == Events("diag")
      acquires == IntentsOf("acquire")
      skips == Events("skip")
  IN /\ \A i \in acquires :
          /\ log[i].qty >= 1
          /\ \E d \in diags : log[d].sym = log[i].sym
     /\ \A i \in diags :
          /\ log[i].sym \in Range(dogs)
          /\ \A d \in diags : log[d].sym = log[i].sym => d = i
          /\ log[i].current = PositionGet(Reread, log[i].sym)
          /\ log[i].diff = log[i].target - log[i].current
          /\ IF log[i].diff = 0
             THEN \A a \in acquires : log[a].sym /= log[i].sym
             ELSE /\ \A a \in acquires :
                       log[a].sym = log[i].sym <=> a = i + 1
                  /\ (i + 1) \in acquires
                  /\ log[i + 1].side = IF log[i].diff > 0 THEN "buy"
                                       ELSE "sell"
                  /\ log[i + 1].qty = IF log[i].diff > 0 THEN log[i].diff
                                      ELSE 0 - log[i].diff
     /\ pc = "done" =>
          \A t \in Range(dogs) :
            Cardinality({i \in diags \cup skips : log[i].sym = t}) = 1

\* C8 witness: a finished run with a buy, a trim and a Dog already at its
\* target or skipped.
C8_Witness ==
  /\ pc = "done"
  /\ \E i \in Events("diag") : log[i].diff < 0
  /\ \E i \in Events("diag") : log[i].diff > 0

\* C9 as claimed: the target share count of every Dog is
\* floor((total_capital / N) / price), whatever the length of DogsList.
C9_TargetIsCapitalOverN ==
  \A i \in Events("diag") :
    /\ log[i].target * NumDogs * log[i].price <= TOTAL_PORTFOLIO_VALUE
    /\ TOTAL_PORTFOLIO_VALUE < (log[i].target + 1) * NumDogs * log[i].price

\* C9 amended: the target share count of every Dog is
\* floor((total_capital / len(DogsList)) / price), the same allocation for
\* every Dog of the run; it is floor((total_capital / N) / price) when the
\* universe has at least N symbols.
C9_TargetIsCapitalOverDogs ==
  \A i \in Events("diag") :
    /\ log[i].target >= 0
    /\ log[i].target * Len(dogs) * log[i].price <= TOTAL_PORTFOLIO_VALUE
    /\ TOTAL_PORTFOLIO_VALUE < (log[i].target + 1) * Len(dogs) * log[i].price
    /\ Len(DOW_30) >= NumDogs =>
         /\ log[i].target * NumDogs * log[i].price <= TOTAL_PORTFOLIO_VALUE
         /\ TOTAL_PORTFOLIO_VALUE
              < (log[i].target + 1) * NumDogs * log[i].price

\* C9 witness: a finished run over a universe smaller than N in which a
\* Dog's price does not divide its allocation and its target share count
\* costs more than total_capital / N.
C9_Witness ==
  /\ pc = "done"
  /\ Len(dogs) < NumDogs
  /\ \E i \in Events("diag") :
       /\ log[i].target * Len(dogs) * log[i].price < TOTAL_PORTFOLIO_VALUE
       /\ log[i].target * NumDogs * log[i].price > TOTAL_PORTFOLIO_VALUE

\* C10: the broker is called only for quantities >= 1, and every intent
\* with a quantity below 1 is dropped by place_order, in both phases.
C10_NoOrderBelowOne ==
  \A i \in Events("intent") :
    /\ Submitted(i) => log[i].qty >= 1
    /\ log[i].qty < 1 <=> log[i].result = "dropped"

\* C10 witness: a finished run in which rebalance handed place_order an
\* intent of quantity 0, which was dropped, and orders of both sides and
\* both phases reached the broker.
C10_Witness ==
  /\ pc = "done"
  /\ \E i \in IntentsOf("divest") :
       log[i].qty = 0 /\ log[i].result = "dropped"
  /\ \E i \in IntentsOf("divest") : Submitted(i)
  /\ \E i \in IntentsOf("acquire") : Submitted(i) /\ log[i].side = "buy"

\* the Dogs the target pass has handled: skipped for want of a price, or
\* diffed against the second read
Handled(t) == {i \in Events("diag") \cup Events("skip") : log[i].sym = t}

\* C11: when the price lookup of a Dog is absent or fails, that Dog gets no
\* intent in the run, every other Dog is still handled and the run
\* completes.
C11_MissingPriceSkipsOnlyThatDog ==
  LET skips == Events("skip")
      intents == Events("intent")
  IN /\ \A s \in skips : \A i \in intents : log[i].sym /= log[s].sym
     /\ (skips /= {} /\ pc \in {"done", "crashed"}) =>
          /\ pc = "done"
          /\ \A t \in Range(dogs) : Cardinality(Handled(t)) = 1

\* C12: when the startup connectivity check fails nothing runs: no
\* rebalance, no order, no year marker; and nothing else ever ends main.
C12_OnlyConnectivityHalts ==
  /\ pc = "exit" =>
       /\ starts = <<>>
       /\ log = <<>>
       /\ last_rebalance_year = NoYear
       /\ current_year = NoYear
  /\ pc \in {"exit", "crashed"} => (pc = "exit" /\ starts = <<>>)

\* the positions of the first read that are not Dogs, in reading order
OutsideDogs(item) == item.sym \notin Range(dogs)
HeldNonDogs == SelectSeq(log[1].pos, OutsideDogs)
IsDivestIntent(e) == e.ev = "intent" /\ e.phase = "divest"
DivestIntents == SelectSeq(log, IsDivestIntent)

\* C13: the intents attempted in a run, and their order, are fixed by the
\* positions read and the prices found, never by the results of earlier
\* submissions: the divestment intents are the held non-Dogs in reading
\* order, one each; every acquisition intent directly follows the diff of
\* its Dog, one for each non-zero diff; and a rejected or dropped order
\* never ends the run.
C13_OutcomesDoNotSteer ==
  /\ PastDivest =>
       LET held == HeldNonDogs
           sells == DivestIntents
       IN /\ Len(sells) = Len(held)
          /\ \A k \in 1..Len(held) : /\ sells[k].sym = held[k].sym
                                      /\ sells[k].qty = held[k].qty
  /\ \A d \in Events("diag") :
       log[d].diff /= 0 =>
         /\ d < Len(log)
         /\ log[d + 1].ev = "intent"
         /\ log[d + 1].sym = log[d].sym
  /\ \A i \in IntentsOf("acquire") : log[i - 1].ev = "diag"
  /\ pc = "crashed" => log[Len(log)].ev = "raise"
  /\ pc = "done" => \A t \in Range(dogs) : Handled(t) /= {}

\* C13 witness: a finished run in which a rejected divestment order and a
\* rejected acquisition order were each followed by a later intent.
C13_Witness ==
  /\ pc = "done"
  /\ \E i, j \in IntentsOf("divest") : i < j /\ log[i].result = "failed"
  /\ \E i, j \in IntentsOf("acquire") : i < j /\ log[i].result = "failed"

PastSettle == pc \in {"read2", "acquire", "done", "crashed"}

\* C14: the settlement pause is taken exactly when at least one divestment
\* intent was actually submitted to the broker.
C14_PauseIffSubmitted ==
  PastSettle =>
    (Events("pause") /= {} <=> \E i \in IntentsOf("divest") : Submitted(i))

\* C14 (amended): the settlement pause is taken, once, exactly when the
\* first read held at least one non-Dog, that is when at least one
\* divestment intent was emitted, whether it was dropped, rejected or
\* accepted.
C14_PauseIffDivestIntent ==
  PastSettle =>
    LET pauses == Events("pause") IN
    /\ pauses /= {} <=> IntentsOf("divest") /= {}
    /\ pauses /= {} <=> HeldNonDogs /= <<>>
    /\ Cardinality(pauses) <= 1

\* C14 witness: a finished run that paused although no divestment order
\* reached the broker.
C14_Witness ==
  /\ pc = "done"
  /\ Events("pause") /= {}
  /\ \A i \in IntentsOf("divest") : log[i].result = "dropped"

C16_FailedReadIsEmpty ==
  LET reads == Events("read")
      diags == Events("diag")
  IN /\ \A r \in reads : ~log[r].ok => log[r].pos = <<>>
     /\ \A r \in reads \ Rereads :
          ~log[r].ok => (IntentsOf("divest") = {} /\ Events("pause") = {})
     /\ \A r \in Rereads :
          ~log[r].ok =>
            \A d \in diags :
              /\ log[d].current = 0
              /\ log[d].diff = log[d].target
              /\ log[d].target >= 1 =>
                   /\ log[d + 1].ev = "intent"
                   /\ log[d + 1].side = "buy"
                   /\ log[d + 1].qty = log[d].target
     /\ (log /= <<>> /\ log[Len(log)].ev = "read") =>
          pc \in {"divest", "read2", "acquire"}

\* C16 witness: a finished run whose two position reads both failed and
\* that submitted a buy of a full target.
C16_Witness ==
  /\ pc = "done"
  /\ \A r \in Events("read") : ~log[r].ok
  /\ \E d \in Events("diag") :
       /\ log[d].target >= 1
       /\ Submitted(d + 1)

\* C17: in a run every symbol gets at most one intent; a buy is only ever
\* for a Dog; a symbol that is not a Dog only ever gets a divestment sell,
\* never an acquisition-phase intent, whatever the second read shows.
C17_OneIntentPerSymbol ==
  LET intents == Events("intent") IN
  /\ \A i, j \in intents : log[i].sym = log[j].sym => i = j
  /\ \A i \in intents :
       /\ log[i].side = "buy" => log[i].sym \in Range(dogs)
       /\ log[i].phase = "acquire" => log[i].sym \in Range(dogs)
       /\ log[i].sym \notin Range(dogs) =>
            (log[i].side = "sell" /\ log[i].phase = "divest")
       /\ log[i].phase = "divest" => log[i].sym \notin Range(dogs)

\* C17 witness: a finished run that sold a non-Dog, still saw it in the
\* second read, and bought a Dog.
C17_Witness ==
  /\ pc = "done"
  /\ \E i \in IntentsOf("divest") :
       /\ Submitted(i)
       /\ PositionGet(current_positions, log[i].sym) >= 1
  /\ \E j \in IntentsOf("acquire") : log[j].side = "buy" /\ Submitted(j)

\* dollar value of the targets computed, and of the buys placed, in the
\* first n events of the run (an acquisition intent follows its diff)
RECURSIVE TargetValue(_)
TargetValue(n) ==
  IF n = 0 THEN 0
  ELSE TargetValue(n - 1)
         + (IF log[n].ev = "diag" THEN log[n].target * log[n].price ELSE 0)

RECURSIVE BuyValue(_)
BuyValue(n) ==
  IF n = 0 THEN 0
  ELSE BuyValue(n - 1)
         + (IF log[n].ev = "intent" /\ log[n].side = "buy"
            THEN log[n].qty * log[n - 1].price ELSE 0)

RereadNonNegative ==
  \A r \in Rereads : \A k \in 1..Len(log[r].pos) : log[r].pos[k].qty >= 0

\* C18: the targets of a run are worth at most the total capital, and when
\* no held quantity of the second read is negative so are its buy orders.
C18_BuysWithinCapital ==
  /\ TargetValue(Len(log)) <= TOTAL_PORTFOLIO_VALUE
  /\ RereadNonNegative => BuyValue(Len(log)) <= TOTAL_PORTFOLIO_VALUE

\* C18 witness: a finished run that bought the full target of two Dogs,
\* for more than half the capital.
C18_Witness ==
  /\ pc = "done"
  /\ RereadNonNegative
  /\ Cardinality({i \in IntentsOf("acquire") : log[i].side = "buy"}) >= 2
  /\ 2 * BuyValue(Len(log)) > TOTAL_PORTFOLIO_VALUE
  /\ BuyValue(Len(log)) = TargetValue(Len(log))

\* ---- the yearly guarantee ---------------------------------------------
\* the rebalance window of year y lies behind the clock
WindowOver(y) ==
  \/ clock.year > y
  \/ clock.year = y /\ ~is_rebalance_day(clock)

\* C19: polling at least once per window, a process that is still running
\* when the window of a year after its startup year (year 0) has passed
\* has triggered a rebalance in that window, forced startup rebalance or
\* not.
C19_EveryLaterYearRebalanced ==
  \A y \in 1..MaxYear :
    (WindowOver(y) /\ pc \notin {"exit", "crashed"}) => TriggersIn(y) /= {}

\* ---- convergence ------------------------------------------------------
TargetOf(t) == TargetShares(Len(dogs), world.prices[t])
AtTarget ==
  \A sym \in Symbols :
    Book[sym] = IF sym \in Range(dogs) THEN TargetOf(sym) ELSE 0
NothingSubmitted == \A i \in Events("intent") : ~Submitted(i)

====
